---- MODULE Spec2Model ----
(***************************************************************************)
(* A model of aedis::connection (include/aedis/connection.hpp): the        *)
(* request queue reqs_, the in-flight counter cmds_, the write buffer and  *)
(* the socket, together with the operations cancel, add_request_info and   *)
(* coalesce_requests.  The composed operations of                          *)
(* aedis/detail/connection_ops.hpp (exec_op, writer_op, reader_op, run_op) *)
(* follow the design description (spec.md, sections 4.D to 4.H).           *)
(***************************************************************************)
EXTENDS Integers, Sequences, FiniteSets, TLC

\* ---------------------------------------------------------------- bounds
MaxReqs == 2        \* async_exec calls made by the user
MaxSpecial == 1     \* ... of which requests other than a plain PING
MaxConns == 2       \* successful connects
MaxWire == 3        \* payloads flushed to sockets before the writer is held
MaxWaiters == 1     \* outstanding async_receive_push / async_receive_event
MaxRecv == 2        \* async_receive_push calls made by the consumer
MaxPush == 2        \* push frames sent by the server
MaxFails == 2       \* failed resolve / connect attempts
MaxDepth == 2       \* aggregates open at a time in the parser
MaxSize == 2        \* size read in the header of an aggregate

\* ---------------------------------------------------------------- requests
UserKinds == {"ping", "hello", "retry", "cinc", "own_ping"}
\* the requests of tests/conn_push.cpp: PING, SUBSCRIBE alone, and
\* HELLO + PING + SUBSCRIBE + QUIT
PushKinds == {"ping", "subscribe", "push_filtered"}
ReqKinds == UserKinds \cup PushKinds \cup {"handshake", "oversize"}

\* What the server sends back for the commands of a request, in order:
\* "reply" is a response frame, "push" the confirmation of a SUBSCRIBE.
Replies(k) ==
  CASE k = "retry" -> <<"reply", "reply">>
    [] k = "oversize" -> <<"reply", "reply">>
    [] k = "subscribe" -> <<"push">>
    [] k = "push_filtered" -> <<"reply", "reply", "push", "reply">>
    [] OTHER -> <<"reply">>

\* request::size(): the commands that expect a response
request_size(k) ==
  CASE k \in {"retry", "oversize"} -> 2
    [] k = "subscribe" -> 0
    [] k = "push_filtered" -> 3
    [] OTHER -> 1

\* adapter.supported_response_size() of the adapter passed along with the
\* request: only the "oversize" submission has an adapter that is too small
supported_response_size(k) ==
  IF k = "oversize" THEN request_size(k) - 1 ELSE request_size(k)

\* The requests built by the tests, as [size, flags].
ReqAttr(k) ==
  [ size |-> request_size(k),
    hello |-> k \in {"hello", "handshake"},
    hello_with_priority |-> k \in {"hello", "handshake"},
    cancel_on_connection_lost |-> k \in {"ping", "hello", "handshake",
                                          "subscribe", "push_filtered"},
    retry_on_connection_lost |-> k = "retry",
    cancel_if_not_connected |-> k = "cinc",
    close_on_run_completion |-> k = "own_ping",
    coalesce |-> k \notin {"hello", "cinc"} ]

\* enum class operation
Operations == {"exec", "run", "receive_event", "receive_push"}

\* connection::config: the two settings the model starts from
Configs ==
  { [coalesce_requests |-> TRUE, enable_reconnect |-> FALSE],
    [coalesce_requests |-> FALSE, enable_reconnect |-> TRUE] }

UserIds == 1..MaxReqs
Ids == 1..(MaxReqs + MaxConns)
HandshakeId(n) == MaxReqs + n

\* ---------------------------------------------------------------- resp3
\* enum class type, without type::invalid
Types ==
  {"array", "push", "set", "map", "attribute", "simple_string",
   "simple_error", "number", "doublean", "boolean", "big_number", "null",
   "blob_error", "verbatim_string", "blob_string", "streamed_string_part"}

\* the values of a char, as character codes
Bytes == 0..255

\* (mutation) a push is not taken for an aggregate
is_aggregate_no_push(t) == t \in {"array", "set", "map", "attribute"}

\* is_aggregate
is_aggregate(t) == t \in {"array", "push", "set", "map", "attribute"}

\* (mutation) every aggregate has one frame per element
element_multiplicity_one(t) == 1

\* element_multiplicity
element_multiplicity(t) == IF t \in {"map", "attribute"} THEN 2 ELSE 1

\* to_code, the characters as their codes; the default branch is
\* BOOST_ASSERT(false); return ' '
to_code(t) ==
  CASE t = "blob_error" -> 33
    [] t = "verbatim_string" -> 61
    [] t = "blob_string" -> 36
    [] t = "streamed_string_part" -> 59
    [] t = "simple_error" -> 45
    [] t = "number" -> 58
    [] t = "doublean" -> 44
    [] t = "boolean" -> 35
    [] t = "big_number" -> 40
    [] t = "simple_string" -> 43
    [] t = "null" -> 95
    [] t = "push" -> 62
    [] t = "set" -> 126
    [] t = "array" -> 42
    [] t = "attribute" -> 124
    [] t = "map" -> 37
    [] OTHER -> 32

\* to_type
to_type(c) ==
  CASE c = 33 -> "blob_error"
    [] c = 61 -> "verbatim_string"
    [] c = 36 -> "blob_string"
    [] c = 59 -> "streamed_string_part"
    [] c = 45 -> "simple_error"
    [] c = 58 -> "number"
    [] c = 44 -> "doublean"
    [] c = 35 -> "boolean"
    [] c = 40 -> "big_number"
    [] c = 43 -> "simple_string"
    [] c = 95 -> "null"
    [] c = 62 -> "push"
    [] c = 126 -> "set"
    [] c = 42 -> "array"
    [] c = 124 -> "attribute"
    [] c = 37 -> "map"
    [] OTHER -> "invalid"

VARIABLES
  cfg,            \* connection::config (coalesce_requests, enable_reconnect)
  socket_,        \* "null" | "open" | "closed"
  reqs_,          \* the queue: a sequence of entry ids
  cmds_,          \* commands in flight
  write_buffer_,  \* payloads (request ids) of the write in progress
  kind,           \* req_info::req of each entry ("none": not submitted)
  cmds,           \* req_info::cmds
  stop,           \* req_info::stop
  written,        \* req_info::written
  result,         \* completion of each async_exec
  wakes,          \* how often the entry's timer was cancelled
  writer,         \* writer activity: "off" | "check" | "writing" | "waiting"
  runState,       \* "idle" | "connecting" | "running" | "done"
  nconn,          \* connects so far
  nsub,           \* user submissions so far
  inbound,        \* response frames on the socket, tagged with their request
  wireLog,        \* payloads flushed to a socket: <<connection, id>>
  adapterLog,     \* adapter invocations: <<entry id, frame's request id>>
  doneLog,        \* ids in completion order
  subLog,         \* ids in submission order
  behind,         \* unwritten entries queued when the entry was submitted
  pushWaiters,    \* outstanding async_receive_push
  eventWaiters,   \* outstanding async_receive_event
  call,           \* the cancel() call of the last step: operation, return
                  \* value, and whether it repeats the call of the step before
  run_ec,         \* why the run ends / ended: the error async_run completes with
  nfail,          \* failed resolve / connect attempts so far
  npush,          \* push frames the server has sent so far
  recvLog,        \* completions of async_receive_push, in order
  idle,           \* now - last_data_, in units of ping_interval (capped)
  check_due,      \* the timer of the idle checker has expired
  quiet,          \* time since the later of run start and last data (capped)
  pbyte,          \* parser: the byte peeked at the start of a frame (-1: none)
  ptype,          \* parser: the type of the frame read last
  perr,           \* parser: its error
  stack,          \* parser: the aggregates that are open, outermost first
  agg             \* parser: the aggregate completed by the frame read last

vars == <<cfg, socket_, reqs_, cmds_, write_buffer_, kind, cmds, stop, written,
          result, wakes, writer, runState, nconn, nsub, inbound, wireLog,
          adapterLog, doneLog, subLog, behind, pushWaiters, eventWaiters,
          call, run_ec, nfail, npush, recvLog, idle, check_due, quiet,
          pbyte, ptype, perr, stack, agg>>

\* last_data_ and the timer of the idle checker
healthVars == <<idle, check_due, quiet>>
\* the push channel's history
pushVars == <<npush, recvLog>>
parseVars == <<pbyte, ptype, perr, stack, agg>>

\* async_run (doc): the idle timeout is twice config::ping_interval
IdleFactor == 2

\* ---------------------------------------------------------------- helpers
Range(s) == {s[i] : i \in 1..Len(s)}
Attr(id) == ReqAttr(kind[id])
is_open == socket_ = "open"
Pos(s, x) == CHOOSE i \in 1..Len(s) : s[i] = x

\* std::stable_partition followed by erase(point, end): the kept prefix
stable_partition_keep(q, K) == SelectSeq(q, LAMBDA e : e \in K)
\* ... and the range [point, end) that is erased
stable_partition_rest(q, K) == SelectSeq(q, LAMBDA e : e \notin K)

\* timer.cancel(): completes the pending wait of the entry, if there is one
Woken(S) == {i \in S : result[i] = "pending"}
\* ... counted per entry, whether or not a wait was pending
WakeCount(S) == [i \in Ids |-> IF i \in S THEN wakes[i] + 1 ELSE wakes[i]]
\* exec_op after its wait: stop set -> operation_aborted, else success
Completed(S, stp) ==
  [i \in Ids |-> IF i \in Woken(S)
                 THEN (IF stp[i] THEN "aborted" ELSE "ok")
                 ELSE result[i]]
\* writer_timer_.cancel(): wakes the writer when it waits on the timer
WakeWriter(w) == IF w = "waiting" THEN "check" ELSE w

\* the activities of a run are composed first-to-finish: the error of the
\* first one that ends is the error of the run
run_end_cause(ec) ==
  IF runState = "running" /\ run_ec = "none" THEN ec ELSE run_ec

NoCall == [op |-> "none", ret |-> 0, again |-> FALSE]
Called(o, r) == [op |-> o, ret |-> r, again |-> call.op = o]

\* ---------------------------------------------------------------- Init
\* the connection after construction
InitConnection ==
  /\ cfg \in Configs
  /\ socket_ = "null"
  /\ reqs_ = <<>>
  /\ cmds_ = 0
  /\ write_buffer_ = <<>>
  /\ kind = [i \in Ids |-> "none"]
  /\ cmds = [i \in Ids |-> 0]
  /\ stop = [i \in Ids |-> FALSE]
  /\ written = [i \in Ids |-> FALSE]
  /\ result = [i \in Ids |-> "none"]
  /\ wakes = [i \in Ids |-> 0]
  /\ writer = "off"
  /\ runState = "idle"
  /\ nconn = 0
  /\ nsub = 0
  /\ inbound = <<>>
  /\ wireLog = <<>>
  /\ adapterLog = <<>>
  /\ doneLog = <<>>
  /\ subLog = <<>>
  /\ behind = [i \in Ids |-> {}]
  /\ pushWaiters = 0
  /\ eventWaiters = 0
  /\ call = NoCall
  /\ run_ec = "none"
  /\ nfail = 0
  /\ npush = 0
  /\ recvLog = <<>>
  /\ idle = IdleFactor + 1
  /\ check_due = FALSE
  /\ quiet = 0

\* the parser before the first byte
InitParser ==
  /\ pbyte = -1
  /\ ptype = "none"
  /\ perr = "none"
  /\ stack = <<>>
  /\ agg = [type |-> "none", size |-> 0, seen |-> 0]

Init == InitConnection /\ InitParser

\* ---------------------------------------------------------------- submit
\* (mutation) the entry is put at the front of the queue
add_request_info_queue_front(q, id) == <<id>> \o q

\* add_request_info: reqs_.push_back(info)
add_request_info_queue(q, id) == Append(q, id)

\* add_request_info: the condition under which writer_timer_ is cancelled
add_request_info_wake == is_open /\ cmds_ = 0 /\ write_buffer_ = <<>>

\* (mutation) the flag is ignored
exec_not_connected_never(k) == FALSE

\* exec_op: fails at once when disconnected and cancel_if_not_connected
exec_not_connected(k) == ReqAttr(k).cancel_if_not_connected /\ ~is_open

\* the entries a request of kind k is meant to overtake: those not written
\* yet, when it starts with HELLO and has hello_with_priority
Behind(k) ==
  IF ReqAttr(k).hello /\ ReqAttr(k).hello_with_priority
  THEN {e \in Range(reqs_) : ~written[e]}
  ELSE {}

\* exec_op up to its wait on the entry's timer, for request id of kind k
Enqueue(id, k) ==
  /\ kind' = [kind EXCEPT ![id] = k]
  /\ subLog' = Append(subLog, id)
  /\ IF exec_not_connected(k)
     THEN /\ result' = [result EXCEPT ![id] = "not_connected"]
          /\ doneLog' = Append(doneLog, id)
          /\ UNCHANGED <<reqs_, cmds, writer, behind>>
     ELSE /\ result' = [result EXCEPT ![id] = "pending"]
          /\ cmds' = [cmds EXCEPT ![id] = ReqAttr(k).size]
          /\ behind' = [behind EXCEPT ![id] = Behind(k)]
          /\ reqs_' = add_request_info_queue(reqs_, id)
          /\ writer' = IF add_request_info_wake THEN WakeWriter(writer) ELSE writer
          /\ UNCHANGED doneLog

NumSpecial == Cardinality({i \in UserIds : kind[i] \notin {"none", "ping"}})

\* connection::async_exec
Submit ==
  /\ call' = NoCall
  /\ nsub < MaxReqs
  /\ \E k \in UserKinds :
       /\ k = "ping" \/ NumSpecial < MaxSpecial
       /\ Enqueue(nsub + 1, k)
  /\ nsub' = nsub + 1
  /\ UNCHANGED <<cfg, socket_, cmds_, write_buffer_, stop, written, wakes,
                 runState, nconn, inbound, wireLog, adapterLog, pushWaiters,
                 eventWaiters>>
  /\ UNCHANGED <<run_ec, nfail, healthVars, pushVars>>
  /\ UNCHANGED parseVars

\* connection::async_exec with the requests of tests/conn_push.cpp
SubmitPush ==
  /\ call' = NoCall
  /\ nsub < MaxReqs
  /\ \E k \in PushKinds :
       /\ k = "ping" \/ NumSpecial < MaxSpecial
       /\ Enqueue(nsub + 1, k)
  /\ nsub' = nsub + 1
  /\ UNCHANGED <<cfg, socket_, cmds_, write_buffer_, stop, written, wakes,
                 runState, nconn, inbound, wireLog, adapterLog, pushWaiters,
                 eventWaiters>>
  /\ UNCHANGED <<run_ec, nfail, healthVars, pushVars>>
  /\ UNCHANGED parseVars

\* async_exec: the condition of BOOST_ASSERT_MSG
async_exec_size_ok(k) == request_size(k) <= supported_response_size(k)

\* what a failed BOOST_ASSERT_MSG does, by build: the assertion handler ends
\* the call ("assertion_failed"), or the check is compiled out ("ignored")
AssertOutcomes == {"assertion_failed", "ignored"}

\* connection::async_exec with a request that has more commands than the
\* adapter supports
SubmitIncompatible ==
  /\ call' = NoCall
  /\ nsub < MaxReqs
  /\ NumSpecial < MaxSpecial
  /\ ~async_exec_size_ok("oversize")
  /\ \E outcome \in AssertOutcomes :
       IF outcome = "assertion_failed"
       THEN /\ kind' = [kind EXCEPT ![nsub + 1] = "oversize"]
            /\ subLog' = Append(subLog, nsub + 1)
            /\ result' = [result EXCEPT ![nsub + 1] = "assertion_failed"]
            /\ UNCHANGED <<reqs_, cmds, writer, behind, doneLog>>
       ELSE Enqueue(nsub + 1, "oversize")
  /\ nsub' = nsub + 1
  /\ UNCHANGED <<cfg, socket_, cmds_, write_buffer_, stop, written, wakes,
                 runState, nconn, inbound, wireLog, adapterLog, pushWaiters,
                 eventWaiters>>
  /\ UNCHANGED <<run_ec, nfail, healthVars, pushVars>>
  /\ UNCHANGED parseVars

\* ---------------------------------------------------------------- cancel
\* cancel(operation::exec): auto const ret = reqs_.size()
cancel_exec_ret(q) == Len(q)

\* (mutation) the queue is not cleared
cancel_exec_queue_kept(q) == q

\* cancel(operation::exec): reqs_ = {}
cancel_exec_queue(q) == <<>>

\* (mutation) the stop flags are left alone
cancel_exec_stop_unset(q) == stop

\* cancel(operation::exec): e->stop = true for every entry of the queue
cancel_exec_stop(q) == [i \in Ids |-> stop[i] \/ i \in Range(q)]

\* (mutation) the case falls through to the one of operation::run
cancel_exec_socket_fallthrough(sock) == IF sock = "null" THEN "null" ELSE "closed"

\* cancel(operation::exec): the case returns without a use of socket_
cancel_exec_socket(sock) == sock

\* cancel(operation::exec)
CancelExec ==
  /\ stop' = cancel_exec_stop(reqs_)
  /\ socket_' = cancel_exec_socket(socket_)
  /\ wakes' = WakeCount(Range(reqs_))
  /\ result' = Completed(Range(reqs_), stop')
  /\ doneLog' = doneLog \o SelectSeq(reqs_, LAMBDA e : e \in Woken(Range(reqs_)))
  /\ call' = Called("exec", cancel_exec_ret(reqs_))
  /\ reqs_' = cancel_exec_queue(reqs_)
  /\ UNCHANGED <<cfg, cmds_, write_buffer_, kind, cmds, written,
                 writer, runState, nconn, nsub, inbound, wireLog, adapterLog,
                 subLog, behind, pushWaiters, eventWaiters>>
  /\ UNCHANGED <<run_ec, nfail, healthVars, pushVars>>
  /\ UNCHANGED parseVars

\* (mutation) the predicate keeps every entry
cancel_run_keep_all(e) == TRUE

\* cancel(operation::run): the predicate of std::stable_partition
cancel_run_keep(e) == ~Attr(e).close_on_run_completion

\* cancel(operation::run): if (socket_) socket_->close()
cancel_run_socket(s) == IF s = "null" THEN "null" ELSE "closed"

\* cancel(operation::run): return 1U
cancel_run_ret == 1

\* cancel(operation::run)
CancelRun ==
  /\ socket_' = cancel_run_socket(socket_)
  /\ inbound' = <<>>
  /\ writer' = WakeWriter(writer)
  /\ LET rest == stable_partition_rest(reqs_, {e \in Range(reqs_) : cancel_run_keep(e)}) IN
       /\ stop' = [i \in Ids |-> stop[i] \/ i \in Range(rest)]
       /\ wakes' = WakeCount(Range(rest))
       /\ result' = Completed(Range(rest), stop')
       /\ doneLog' = doneLog \o SelectSeq(rest, LAMBDA e : e \in Woken(Range(rest)))
  /\ reqs_' = stable_partition_keep(reqs_, {e \in Range(reqs_) : cancel_run_keep(e)})
  /\ call' = Called("run", cancel_run_ret)
  /\ UNCHANGED <<cfg, cmds_, write_buffer_, kind, cmds, written, runState,
                 nconn, nsub, wireLog, adapterLog, subLog, behind,
                 pushWaiters, eventWaiters>>
  /\ run_ec' = run_end_cause("operation_aborted")
  /\ UNCHANGED <<nfail, healthVars, pushVars>>
  /\ UNCHANGED parseVars

\* cancel(operation::receive_event): return 1U
cancel_receive_event_ret == 1

\* cancel(operation::receive_event): event_channel_.cancel()
CancelReceiveEvent ==
  /\ eventWaiters' = 0
  /\ call' = Called("receive_event", cancel_receive_event_ret)
  /\ UNCHANGED <<cfg, socket_, reqs_, cmds_, write_buffer_, kind, cmds, stop,
                 written, result, wakes, writer, runState, nconn, nsub,
                 inbound, wireLog, adapterLog, doneLog, subLog, behind,
                 pushWaiters>>
  /\ UNCHANGED <<run_ec, nfail, healthVars, pushVars>>
  /\ UNCHANGED parseVars

\* a frame whose root type is push (they are numbered, as negative numbers)
is_push(f) == f < 0

\* reader: suspended in the hand-over of a push for which no consumer waits
reader_sending_push ==
  /\ runState = "running"
  /\ is_open
  /\ run_ec = "none"
  /\ inbound # <<>>
  /\ is_push(Head(inbound))
  /\ pushWaiters = 0

\* (mutation) the waiting consumers are left waiting
cancel_receive_push_waiters_kept(n) == n

\* cancel(operation::receive_push): push_channel_.cancel() leaves no
\* consumer waiting
cancel_receive_push_waiters(n) == 0

\* cancel(operation::receive_push): return 1U
cancel_receive_push_ret == 1

\* cancel(operation::receive_push): push_channel_.cancel()
CancelReceivePush ==
  /\ pushWaiters' = cancel_receive_push_waiters(pushWaiters)
  /\ recvLog' = recvLog \o [i \in 1..(pushWaiters - pushWaiters') |->
                               <<"channel_cancelled", 0>>]
  /\ run_ec' = IF reader_sending_push
               THEN run_end_cause("operation_aborted") ELSE run_ec
  /\ call' = Called("receive_push", cancel_receive_push_ret)
  /\ UNCHANGED <<cfg, socket_, reqs_, cmds_, write_buffer_, kind, cmds, stop,
                 written, result, wakes, writer, runState, nconn, nsub,
                 inbound, wireLog, adapterLog, doneLog, subLog, behind,
                 eventWaiters>>
  /\ UNCHANGED <<nfail, healthVars, npush>>
  /\ UNCHANGED parseVars

\* connection::async_receive_push: a consumer waits on push_channel_
AsyncReceivePush ==
  /\ call' = NoCall
  /\ pushWaiters < MaxWaiters
  /\ Len(recvLog) + pushWaiters < MaxRecv
  /\ pushWaiters' = pushWaiters + 1
  /\ UNCHANGED <<cfg, socket_, reqs_, cmds_, write_buffer_, kind, cmds, stop,
                 written, result, wakes, writer, runState, nconn, nsub,
                 inbound, wireLog, adapterLog, doneLog, subLog, behind,
                 eventWaiters>>
  /\ UNCHANGED <<run_ec, nfail, healthVars, pushVars>>
  /\ UNCHANGED parseVars

\* connection::async_receive_event: a consumer waits on event_channel_
AsyncReceiveEvent ==
  /\ call' = NoCall
  /\ eventWaiters < MaxWaiters
  /\ eventWaiters' = eventWaiters + 1
  /\ UNCHANGED <<cfg, socket_, reqs_, cmds_, write_buffer_, kind, cmds, stop,
                 written, result, wakes, writer, runState, nconn, nsub,
                 inbound, wireLog, adapterLog, doneLog, subLog, behind,
                 pushWaiters>>
  /\ UNCHANGED <<run_ec, nfail, healthVars, pushVars>>
  /\ UNCHANGED parseVars

\* ---------------------------------------------------------------- writer
\* coalesce_requests: cfg_.coalesce_requests ? reqs_.size() : 1
coalesce_size(q) == IF cfg.coalesce_requests THEN Len(q) ELSE 1

RECURSIVE SumSize(_)
SumSize(s) == IF s = <<>> THEN 0 ELSE Attr(Head(s)).size + SumSize(Tail(s))

\* coalesce_requests: the loop over reqs_.at(0) .. reqs_.at(size - 1)
coalesce_requests ==
  LET batch == SubSeq(reqs_, 1, coalesce_size(reqs_)) IN
    /\ write_buffer_' = write_buffer_ \o batch
    /\ cmds_' = cmds_ + SumSize(batch)
    /\ written' = [i \in Ids |-> written[i] \/ i \in Range(batch)]

\* writer: the queue holds an entry that is not written yet
writer_has_work == \E i \in 1..Len(reqs_) : ~written[reqs_[i]]

\* writer, resumed: leave when the socket is closed, else coalesce and
\* start a write, else wait on writer_timer_
WriterCheck ==
  /\ call' = NoCall
  /\ writer = "check"
  /\ IF ~is_open
     THEN writer' = "off" /\ UNCHANGED <<write_buffer_, cmds_, written>>
     ELSE IF writer_has_work
     THEN /\ Len(wireLog) < MaxWire
          /\ writer' = "writing"
          /\ coalesce_requests
     ELSE writer' = "waiting" /\ UNCHANGED <<write_buffer_, cmds_, written>>
  /\ UNCHANGED <<cfg, socket_, reqs_, kind, cmds, stop, result, wakes,
                 runState, nconn, nsub, inbound, wireLog, adapterLog, doneLog,
                 subLog, behind, pushWaiters, eventWaiters>>
  /\ UNCHANGED <<run_ec, nfail, healthVars, pushVars>>
  /\ UNCHANGED parseVars

RECURSIVE Frames(_)
\* the server answers every command of a payload with one frame: a response
\* (tagged with the entry it answers) or a push (0: not numbered yet)
Frames(s) ==
  IF s = <<>> THEN <<>>
  ELSE LET r == Replies(kind[Head(s)]) IN
         [i \in 1..Len(r) |-> IF r[i] = "reply" THEN Head(s) ELSE 0]
         \o Frames(Tail(s))

RECURSIVE NumberPushes(_, _)
\* the pushes of a sequence of frames, numbered from p + 1 on
NumberPushes(fs, p) ==
  IF fs = <<>> THEN <<>>
  ELSE IF Head(fs) = 0
       THEN <<0 - (p + 1)>> \o NumberPushes(Tail(fs), p + 1)
       ELSE <<Head(fs)>> \o NumberPushes(Tail(fs), p)

PushCount(fs) == Cardinality({i \in 1..Len(fs) : fs[i] = 0})

\* (mutation) the predicate keeps every entry
cancel_push_requests_keep_all(e) == TRUE

\* cancel_push_requests: the predicate of std::stable_partition
cancel_push_requests_keep(e) == ~(written[e] /\ Attr(e).size = 0)

\* (mutation) the entries that stay are left in the reverse order
cancel_push_requests_queue_reversed(q) ==
  LET k == stable_partition_keep(q, {e \in Range(q) : cancel_push_requests_keep(e)}) IN
    [i \in 1..Len(k) |-> k[Len(k) + 1 - i]]

\* cancel_push_requests: the entries that stay in the queue
cancel_push_requests_queue(q) ==
  stable_partition_keep(q, {e \in Range(q) : cancel_push_requests_keep(e)})

\* cancel_push_requests: the entries whose timer is cancelled and that are
\* erased
cancel_push_requests_erased(q) ==
  stable_partition_rest(q, {e \in Range(q) : cancel_push_requests_keep(e)})

\* (mutation) the buffer is left as it is after the flush
writer_flushed_buffer_kept == write_buffer_

\* writer: write_buffer_.clear() after the write
writer_flushed_buffer == <<>>

\* writer: the write completed; the buffer is cleared after the flush
WriterWriteDone ==
  /\ call' = NoCall
  /\ writer = "writing"
  /\ writer' = "check"
  /\ write_buffer_' = writer_flushed_buffer
  /\ IF is_open
     THEN /\ wireLog' = wireLog \o [i \in 1..Len(write_buffer_) |-> <<nconn, write_buffer_[i]>>]
          /\ inbound' = inbound \o NumberPushes(Frames(write_buffer_), npush)
          /\ npush' = npush + PushCount(Frames(write_buffer_))
          /\ LET erased == cancel_push_requests_erased(reqs_) IN
               /\ reqs_' = cancel_push_requests_queue(reqs_)
               /\ wakes' = WakeCount(Range(erased))
               /\ result' = Completed(Range(erased), stop)
               /\ doneLog' = doneLog \o SelectSeq(erased, LAMBDA e : e \in Woken(Range(erased)))
     ELSE UNCHANGED <<wireLog, inbound, npush, reqs_, wakes, result, doneLog>>
  /\ UNCHANGED <<cfg, socket_, cmds_, kind, cmds, stop, written,
                 runState, nconn, nsub, adapterLog, subLog,
                 behind, pushWaiters, eventWaiters>>
  /\ UNCHANGED <<run_ec, nfail, healthVars, recvLog>>
  /\ UNCHANGED parseVars

\* ---------------------------------------------------------------- reader
\* (mutation) no frame is taken for a push
reader_is_push_never(f) == FALSE

\* reader: the root type of the frame is push
reader_is_push(f) == is_push(f)

\* (mutation) the hand-over does not wait for a consumer
push_channel_ready_always == TRUE

\* push channel: a consumer of async_receive_push is waiting
push_channel_ready == pushWaiters > 0

\* the index the adapter is called with: the ordinal of the command among
\* those of the request that expect a response
adapter_index(e) == Attr(e).size - cmds[e]

\* reader: one top-level frame goes to the adapter of the head entry; the
\* entry is woken and popped with its last frame
ReaderFrame ==
  /\ call' = NoCall
  /\ runState = "running"
  /\ is_open
  /\ run_ec = "none"
  /\ inbound # <<>>
  /\ ~reader_is_push(Head(inbound))
  /\ reqs_ # <<>>
  /\ idle' = 0
  /\ quiet' = 0
  /\ LET e == Head(reqs_)
         f == Head(inbound)
         last == cmds[e] <= 1 IN
       /\ inbound' = Tail(inbound)
       /\ adapterLog' = Append(adapterLog, <<e, f, adapter_index(e)>>)
       /\ cmds' = [cmds EXCEPT ![e] = IF cmds[e] > 0 THEN cmds[e] - 1 ELSE 0]
       /\ cmds_' = IF cmds_ > 0 THEN cmds_ - 1 ELSE 0
       /\ IF last
          THEN /\ reqs_' = Tail(reqs_)
               /\ wakes' = WakeCount({e})
               /\ result' = Completed({e}, stop)
               /\ doneLog' = Append(doneLog, e)
          ELSE UNCHANGED <<reqs_, wakes, result, doneLog>>
  /\ UNCHANGED <<cfg, socket_, write_buffer_, kind, stop, written, writer,
                 runState, nconn, nsub, wireLog, subLog, behind, pushWaiters,
                 eventWaiters>>
  /\ UNCHANGED <<run_ec, nfail, check_due, pushVars>>
  /\ UNCHANGED parseVars

\* the errors an adapter reports on a node (shape validation)
AdapterErrors == {"not_a_number"}

\* exec_op: the error of the adapter is the error of the submission
exec_read_result(ec) == ec

\* (mutation) the stream is taken to be in step after every error
adapter_error_desync_never(e) == FALSE

\* the byte stream is out of step after the error: frames of the request
\* are still to come
adapter_error_desync(e) == cmds[e] > 1

\* reader: the adapter of the head entry reports an error on a frame; the
\* request completes with it and leaves the queue, and the run goes on with
\* the next request or is torn down (always when the stream is out of step)
ReaderFrameError ==
  /\ call' = NoCall
  /\ runState = "running"
  /\ is_open
  /\ run_ec = "none"
  /\ inbound # <<>>
  /\ ~reader_is_push(Head(inbound))
  /\ reqs_ # <<>>
  /\ idle' = 0
  /\ quiet' = 0
  /\ LET e == Head(reqs_)
         f == Head(inbound) IN
       /\ result[e] = "pending"
       /\ adapterLog' = Append(adapterLog, <<e, f, adapter_index(e)>>)
       /\ cmds' = [cmds EXCEPT ![e] = IF cmds[e] > 0 THEN cmds[e] - 1 ELSE 0]
       /\ cmds_' = IF cmds_ > 0 THEN cmds_ - 1 ELSE 0
       /\ reqs_' = Tail(reqs_)
       /\ wakes' = WakeCount({e})
       /\ doneLog' = Append(doneLog, e)
       /\ \E ec \in AdapterErrors :
            result' = [result EXCEPT ![e] = exec_read_result(ec)]
       /\ \E torn \in {adapter_error_desync(e), TRUE} :
            IF torn
            THEN /\ socket_' = "closed"
                 /\ inbound' = <<>>
                 /\ run_ec' = run_end_cause("operation_aborted")
            ELSE /\ inbound' = Tail(inbound)
                 /\ UNCHANGED <<socket_, run_ec>>
  /\ UNCHANGED <<cfg, write_buffer_, kind, stop, written, writer,
                 runState, nconn, nsub, wireLog, subLog, behind, pushWaiters,
                 eventWaiters>>
  /\ UNCHANGED <<nfail, check_due, pushVars>>
  /\ UNCHANGED parseVars

\* reader: a push goes to the push channel; the reader is suspended until a
\* consumer of async_receive_push takes it
ReaderPush ==
  /\ call' = NoCall
  /\ runState = "running"
  /\ is_open
  /\ run_ec = "none"
  /\ inbound # <<>>
  /\ reader_is_push(Head(inbound))
  /\ push_channel_ready
  /\ inbound' = Tail(inbound)
  /\ pushWaiters' = pushWaiters - 1
  /\ recvLog' = Append(recvLog, <<"ok", 0 - Head(inbound)>>)
  /\ idle' = 0
  /\ quiet' = 0
  /\ UNCHANGED <<cfg, socket_, reqs_, cmds_, write_buffer_, kind, cmds, stop,
                 written, result, wakes, writer, runState, nconn, nsub,
                 wireLog, adapterLog, doneLog, subLog, behind, eventWaiters>>
  /\ UNCHANGED <<run_ec, nfail, check_due, npush>>
  /\ UNCHANGED parseVars

\* the errors the adapter of async_receive_push reports on a push
PushAdapterErrors == {"incompatible_size"}

\* reader and receive_push_op: the adapter of the consumer reports an error
\* on the push; the receive completes with it, and the run goes on or is
\* torn down
ReaderPushError ==
  /\ call' = NoCall
  /\ runState = "running"
  /\ is_open
  /\ run_ec = "none"
  /\ inbound # <<>>
  /\ reader_is_push(Head(inbound))
  /\ push_channel_ready
  /\ pushWaiters' = pushWaiters - 1
  /\ \E ec \in PushAdapterErrors :
       recvLog' = Append(recvLog, <<ec, 0 - Head(inbound)>>)
  /\ idle' = 0
  /\ quiet' = 0
  /\ \E torn \in BOOLEAN :
       IF torn
       THEN /\ socket_' = "closed"
            /\ inbound' = <<>>
            /\ run_ec' = run_end_cause("operation_aborted")
       ELSE /\ inbound' = Tail(inbound)
            /\ UNCHANGED <<socket_, run_ec>>
  /\ UNCHANGED <<cfg, reqs_, cmds_, write_buffer_, kind, cmds, stop,
                 written, result, wakes, writer, runState, nconn, nsub,
                 wireLog, adapterLog, doneLog, subLog, behind, eventWaiters>>
  /\ UNCHANGED <<nfail, check_due, npush>>
  /\ UNCHANGED parseVars

\* the server sends a push of its own accord (a published message); a
\* reader that waits for data receives its bytes at once
ServerPush ==
  /\ call' = NoCall
  /\ runState = "running"
  /\ is_open
  /\ npush < MaxPush
  /\ inbound' = Append(inbound, 0 - (npush + 1))
  /\ npush' = npush + 1
  /\ idle' = IF inbound = <<>> /\ run_ec = "none" THEN 0 ELSE idle
  /\ quiet' = IF inbound = <<>> /\ run_ec = "none" THEN 0 ELSE quiet
  /\ UNCHANGED <<cfg, socket_, reqs_, cmds_, write_buffer_, kind, cmds, stop,
                 written, result, wakes, writer, runState, nconn, nsub,
                 wireLog, adapterLog, doneLog, subLog, behind, pushWaiters,
                 eventWaiters>>
  /\ UNCHANGED <<run_ec, nfail, check_due, recvLog>>
  /\ UNCHANGED parseVars

\* ---------------------------------------------------------------- run
\* connection::async_run
AsyncRun ==
  /\ call' = NoCall
  /\ runState \in {"idle", "done"}
  /\ runState' = "connecting"
  /\ UNCHANGED <<cfg, socket_, reqs_, cmds_, write_buffer_, kind, cmds, stop,
                 written, result, wakes, writer, nconn, nsub, inbound, wireLog,
                 adapterLog, doneLog, subLog, behind, pushWaiters,
                 eventWaiters>>
  /\ run_ec' = "none"
  /\ UNCHANGED <<nfail, healthVars, pushVars>>
  /\ UNCHANGED parseVars

\* run coordinator: resolve and connect succeeded; the HELLO request of the
\* handshake is enqueued and reader and writer are started
Connect ==
  /\ runState = "connecting"
  /\ LET id == HandshakeId(nconn + 1) IN
       /\ kind' = [kind EXCEPT ![id] = "handshake"]
       /\ subLog' = Append(subLog, id)
       /\ result' = [result EXCEPT ![id] = "pending"]
       /\ cmds' = [cmds EXCEPT ![id] = ReqAttr("handshake").size]
       /\ behind' = [behind EXCEPT ![id] = Behind("handshake")]
       /\ reqs_' = add_request_info_queue(reqs_, id)
  /\ socket_' = "open"
  /\ inbound' = <<>>
  /\ nconn' = nconn + 1
  /\ writer' = "check"
  /\ runState' = "running"
  /\ call' = NoCall
  /\ UNCHANGED <<cfg, cmds_, write_buffer_, stop, written, wakes, nsub,
                 wireLog, adapterLog, doneLog, pushWaiters, eventWaiters>>
  /\ run_ec' = "none"
  /\ check_due' = FALSE
  /\ quiet' = 0
  /\ UNCHANGED <<nfail, idle, pushVars>>
  /\ UNCHANGED parseVars

\* the first connect of the connection object
ConnectOk == nconn = 0 /\ Connect

\* a connect after an earlier run has ended
Reconnect == nconn > 0 /\ nconn < MaxConns /\ Connect

\* the peer closes the connection: the reader ends with an error
ConnLost ==
  /\ call' = NoCall
  /\ runState = "running"
  /\ is_open
  /\ socket_' = "closed"
  /\ inbound' = <<>>
  /\ UNCHANGED <<cfg, reqs_, cmds_, write_buffer_, kind, cmds, stop, written,
                 result, wakes, writer, runState, nconn, nsub, wireLog,
                 adapterLog, doneLog, subLog, behind, pushWaiters,
                 eventWaiters>>
  /\ run_ec' = run_end_cause("eof")
  /\ UNCHANGED <<nfail, healthVars, pushVars>>
  /\ UNCHANGED parseVars

\* (mutation) the cleanup keeps every entry
run_end_keep_all(e) == TRUE

\* run coordinator, after the run: entries with cancel_on_connection_lost
\* are dropped, the others are retained
run_end_keep(e) == ~Attr(e).cancel_on_connection_lost

\* run coordinator: reconnect when config::enable_reconnect is set, else
\* async_run completes
run_end_next == IF cfg.enable_reconnect THEN "connecting" ELSE "done"

\* (mutation) the writer of the run that ended is left as it is
run_end_writer_kept == writer

\* run coordinator: the activities that have not finished are cancelled
run_end_writer == "off"

\* run coordinator: one of the activities finished; the others are
\* cancelled, the queue is cleaned, then reconnect or complete
RunEnd ==
  /\ call' = NoCall
  /\ runState = "running"
  /\ (socket_ = "closed" \/ run_ec # "none")
  /\ writer # "writing"
  /\ writer' = run_end_writer
  /\ socket_' = cancel_run_socket(socket_)
  /\ inbound' = <<>>
  /\ LET erased == cancel_push_requests_erased(reqs_)
         q == cancel_push_requests_queue(reqs_)
         rest == stable_partition_rest(q, {e \in Range(q) : run_end_keep(e)})
         gone == erased \o rest IN
       /\ stop' = [i \in Ids |-> stop[i] \/ i \in Range(rest)]
       /\ wakes' = WakeCount(Range(gone))
       /\ result' = Completed(Range(gone), stop')
       /\ doneLog' = doneLog \o SelectSeq(gone, LAMBDA e : e \in Woken(Range(gone)))
       /\ reqs_' = stable_partition_keep(q, {e \in Range(q) : run_end_keep(e)})
  /\ runState' = run_end_next
  /\ UNCHANGED <<cfg, cmds_, write_buffer_, kind, cmds, written,
                 nconn, nsub, wireLog, adapterLog, subLog, behind,
                 pushWaiters, eventWaiters>>
  /\ UNCHANGED <<run_ec, nfail, healthVars, pushVars>>
  /\ UNCHANGED parseVars

\* (mutation) a failed attempt ends the run whatever the configuration
connect_fail_done == "done"

\* run coordinator: after a failed attempt, a new attempt when
\* config::enable_reconnect is set, else async_run completes
connect_fail_next == IF cfg.enable_reconnect THEN "connecting" ELSE "done"

\* the errors of a resolve or connect attempt
ConnectErrors == {"resolve_timeout", "connect_timeout", "transport_error"}

\* run coordinator: the resolve or the connect timed out or failed
ConnectFail ==
  /\ call' = NoCall
  /\ runState = "connecting"
  /\ nfail < MaxFails
  /\ nfail' = nfail + 1
  /\ \E ec \in ConnectErrors : run_ec' = ec
  /\ runState' = connect_fail_next
  /\ UNCHANGED <<cfg, socket_, reqs_, cmds_, write_buffer_, kind, cmds, stop,
                 written, result, wakes, writer, nconn, nsub, inbound, wireLog,
                 adapterLog, doneLog, subLog, behind, pushWaiters,
                 eventWaiters>>
  /\ UNCHANGED <<healthVars, pushVars>>
  /\ UNCHANGED parseVars

\* ---------------------------------------------------------------- health
Cap(n) == IF n > IdleFactor THEN IdleFactor + 1 ELSE n

\* a ping_interval passes: the timer of the idle checker expires
Tick ==
  /\ call' = NoCall
  /\ runState = "running"
  /\ run_ec = "none"
  /\ (idle <= IdleFactor \/ quiet <= IdleFactor \/ ~check_due)
  /\ idle' = Cap(idle + 1)
  /\ quiet' = Cap(quiet + 1)
  /\ check_due' = TRUE
  /\ UNCHANGED <<cfg, socket_, reqs_, cmds_, write_buffer_, kind, cmds, stop,
                 written, result, wakes, writer, runState, nconn, nsub,
                 inbound, wireLog, adapterLog, doneLog, subLog, behind,
                 pushWaiters, eventWaiters>>
  /\ UNCHANGED <<run_ec, nfail, pushVars>>
  /\ UNCHANGED parseVars

\* (mutation) the idle checker never finds the connection idle
check_idle_never == FALSE

\* idle checker: now - last_data_ > 2 * ping_interval
check_idle_timeout == idle > IdleFactor

\* idle checker, every ping_interval: close the socket and end the run with
\* idle_timeout when no data came for too long
IdleCheck ==
  /\ call' = NoCall
  /\ runState = "running"
  /\ run_ec = "none"
  /\ check_due
  /\ check_due' = FALSE
  /\ IF check_idle_timeout
     THEN /\ socket_' = cancel_run_socket(socket_)
          /\ inbound' = <<>>
          /\ writer' = WakeWriter(writer)
          /\ run_ec' = "idle_timeout"
     ELSE UNCHANGED <<socket_, inbound, writer, run_ec>>
  /\ UNCHANGED <<cfg, reqs_, cmds_, write_buffer_, kind, cmds, stop,
                 written, result, wakes, runState, nconn, nsub,
                 wireLog, adapterLog, doneLog, subLog, behind,
                 pushWaiters, eventWaiters>>
  /\ UNCHANGED <<nfail, idle, quiet, pushVars>>
  /\ UNCHANGED parseVars

\* ---------------------------------------------------------------- parser
connectionVars ==
  <<cfg, socket_, reqs_, cmds_, write_buffer_, kind, cmds, stop, written,
    result, wakes, writer, runState, nconn, nsub, inbound, wireLog,
    adapterLog, doneLog, subLog, behind, pushWaiters, eventWaiters,
    call, run_ec, nfail, npush, recvLog, idle, check_due, quiet>>

\* a frame at the depth of the innermost open aggregate is complete
ChildDone(st) ==
  IF st = <<>> THEN st
  ELSE [st EXCEPT ![Len(st)].remaining = @ - 1, ![Len(st)].seen = @ + 1]

RECURSIVE Close(_)
\* an aggregate with no frame left is complete and is itself a frame of the
\* aggregate around it
Close(st) ==
  IF st = <<>> \/ st[Len(st)].remaining > 0 THEN st
  ELSE Close(ChildDone(SubSeq(st, 1, Len(st) - 1)))

RECURSIVE LastClosed(_, _)
\* the aggregate that Close completes last (cur: it completes none)
LastClosed(st, cur) ==
  IF st = <<>> \/ st[Len(st)].remaining > 0 THEN cur
  ELSE LastClosed(ChildDone(SubSeq(st, 1, Len(st) - 1)),
                  [type |-> st[Len(st)].type, size |-> st[Len(st)].size,
                   seen |-> st[Len(st)].seen])

\* parser, NeedHeader: peek the first byte of the next frame
ParserPeek ==
  /\ perr = "none"
  /\ pbyte = -1 \/ ptype # "none"
  /\ \E c \in Bytes :
       /\ is_aggregate(to_type(c)) => Len(stack) < MaxDepth
       /\ pbyte' = c
  /\ ptype' = "none"
  /\ agg' = [type |-> "none", size |-> 0, seen |-> 0]
  /\ UNCHANGED <<perr, stack>>
  /\ UNCHANGED connectionVars

\* (mutation) an aggregate expects as many frames as its size
aggregate_remaining_size(t, sz) == sz

\* parser, NeedAggregate: the frames an aggregate of type t and size sz
\* expects one level down
aggregate_remaining(t, sz) == sz * element_multiplicity(t)

\* parser: map the byte to its type; an aggregate opens with its size times
\* element_multiplicity frames to come, any other frame is complete
ParserHeader ==
  /\ pbyte # -1
  /\ ptype = "none"
  /\ ptype' = to_type(pbyte)
  /\ pbyte' = pbyte
  /\ LET t == to_type(pbyte) IN
       IF t = "invalid"
       THEN perr' = "unknown_type" /\ UNCHANGED <<stack, agg>>
       ELSE /\ perr' = perr
            /\ IF is_aggregate(t)
               THEN \E sz \in 0..MaxSize :
                      LET st == Append(stack,
                                  [type |-> t, size |-> sz,
                                   remaining |-> aggregate_remaining(t, sz),
                                   seen |-> 0]) IN
                        stack' = Close(st) /\ agg' = LastClosed(st, agg)
               ELSE LET st == ChildDone(stack) IN
                      stack' = Close(st) /\ agg' = LastClosed(st, agg)
  /\ UNCHANGED connectionVars

\* ---------------------------------------------------------------- spec
Next ==
  \/ Submit
  \/ CancelExec
  \/ CancelRun
  \/ WriterCheck
  \/ WriterWriteDone
  \/ ReaderFrame
  \/ AsyncRun
  \/ ConnectOk
  \/ ConnLost
  \/ RunEnd

Spec == Init /\ [][Next]_vars

\* ... with reconnects, and without cancel(operation::exec)
NextReconnect ==
  \/ Submit
  \/ CancelRun
  \/ WriterCheck
  \/ WriterWriteDone
  \/ ReaderFrame
  \/ AsyncRun
  \/ ConnectOk
  \/ Reconnect
  \/ ConnLost
  \/ RunEnd

SpecReconnect == Init /\ [][NextReconnect]_vars

\* the operations of the public interface alone (no writer or reader step)
NextApi ==
  \/ Submit
  \/ CancelExec
  \/ CancelRun
  \/ CancelReceiveEvent
  \/ CancelReceivePush
  \/ AsyncReceivePush
  \/ AsyncReceiveEvent
  \/ SubmitIncompatible
  \/ AsyncRun
  \/ ConnectOk
  \/ ConnLost
  \/ RunEnd

SpecApi == Init /\ [][NextApi]_vars

\* requests with SUBSCRIBE, server pushes and their consumer
NextPush ==
  \/ SubmitPush
  \/ WriterCheck
  \/ WriterWriteDone
  \/ ReaderFrame
  \/ ReaderPush
  \/ ServerPush
  \/ AsyncReceivePush
  \/ CancelReceivePush
  \/ AsyncRun
  \/ ConnectOk
  \/ ConnLost
  \/ RunEnd

SpecPush == Init /\ [][NextPush]_vars

\* the idle checker, with no consumer of pushes and nothing that cancels
NextHealth ==
  \/ WriterCheck
  \/ WriterWriteDone
  \/ ReaderFrame
  \/ ServerPush
  \/ Tick
  \/ IdleCheck
  \/ AsyncRun
  \/ ConnectOk
  \/ RunEnd

\* time passes, the idle checker runs when its timer expired, and the
\* coordinator and the writer go on when they can
SpecHealth ==
  /\ Init
  /\ [][NextHealth]_vars
  /\ WF_vars(Tick)
  /\ WF_vars(IdleCheck)
  /\ WF_vars(WriterWriteDone)
  /\ WF_vars(RunEnd)

\* the run coordinator with failing resolve / connect attempts
NextRun ==
  \/ Submit
  \/ AsyncRun
  \/ ConnectFail
  \/ ConnectOk
  \/ Reconnect
  \/ ConnLost
  \/ CancelRun
  \/ RunEnd

SpecRun == Init /\ [][NextRun]_vars

\* requests whose adapter may report an error
NextAdapter ==
  \/ Submit
  \/ WriterCheck
  \/ WriterWriteDone
  \/ ReaderFrame
  \/ ReaderFrameError
  \/ AsyncRun
  \/ ConnectOk
  \/ RunEnd

SpecAdapter == Init /\ [][NextAdapter]_vars

\* pushes whose consumer's adapter may report an error
NextPushError ==
  \/ SubmitPush
  \/ WriterCheck
  \/ WriterWriteDone
  \/ ReaderFrame
  \/ ReaderPush
  \/ ReaderPushError
  \/ ServerPush
  \/ AsyncReceivePush
  \/ AsyncRun
  \/ ConnectOk
  \/ RunEnd

SpecPushError == Init /\ [][NextPushError]_vars

\* the RESP3 parser on a stream of frames
NextResp3 ==
  \/ ParserPeek
  \/ ParserHeader

SpecResp3 == Init /\ [][NextResp3]_vars

\* a connection that stays up with a server that answers: no cancel, no
\* loss of the connection
NextLive ==
  \/ Submit
  \/ WriterCheck
  \/ WriterWriteDone
  \/ ReaderFrame
  \/ AsyncRun
  \/ ConnectOk

\* the executor runs the writer and the reader whenever they can go on
SpecLive ==
  /\ Init
  /\ [][NextLive]_vars
  /\ WF_vars(WriterCheck)
  /\ WF_vars(WriterWriteDone)
  /\ WF_vars(ReaderFrame)

\* run cycles one after the other: reader, writer and idle checker, the
\* ways a run ends, and the reconnect
NextCycle ==
  \/ WriterCheck
  \/ WriterWriteDone
  \/ ReaderFrame
  \/ Tick
  \/ IdleCheck
  \/ AsyncRun
  \/ ConnectOk
  \/ Reconnect
  \/ ConnLost
  \/ CancelRun
  \/ RunEnd

SpecCycle == Init /\ [][NextCycle]_vars

\* the cancellations of requests and of consumers while requests are
\* written
NextCancel ==
  \/ Submit
  \/ CancelExec
  \/ CancelReceiveEvent
  \/ CancelReceivePush
  \/ AsyncReceivePush
  \/ AsyncReceiveEvent
  \/ WriterCheck
  \/ WriterWriteDone
  \/ AsyncRun
  \/ ConnectOk

SpecCancel == Init /\ [][NextCancel]_vars

TypeOK ==
  /\ socket_ \in {"null", "open", "closed"}
  /\ cmds_ \in Nat
  /\ writer \in {"off", "check", "writing", "waiting"}
  /\ runState \in {"idle", "connecting", "running", "done"}
  /\ \A i \in Ids : result[i] \in {"none", "pending", "ok", "aborted", "not_connected",
                                 "not_a_number",
                                    "assertion_failed"}
  /\ run_ec \in {"none", "operation_aborted", "eof", "idle_timeout"} \cup ConnectErrors
  /\ idle \in 0..(IdleFactor + 1)
  /\ quiet \in 0..(IdleFactor + 1)
  /\ \A i \in 1..Len(reqs_) : result[reqs_[i]] = "pending"

\* ---------------------------------------------------------------- claims
Submitted == Range(subLog)
SubmittedBefore(a, b) == Pos(subLog, a) < Pos(subLog, b)
DoneBefore(a, b) == a \in Range(doneLog) /\ (b \in Range(doneLog) => Pos(doneLog, a) < Pos(doneLog, b))
HelloPriority(i) == Attr(i).hello /\ Attr(i).hello_with_priority
\* the positions of the payloads of entry i in the log of the wire
WirePos(i) == {n \in 1..Len(wireLog) : wireLog[n][2] = i}
\* the positions of the payloads flushed on connection c
ConnPos(c) == {n \in 1..Len(wireLog) : wireLog[n][1] = c}
Min(S) == CHOOSE x \in S : \A y \in S : x <= y

\* C1: two requests without HELLO priority that both receive their
\* responses are served in submission order: every adapter call of the
\* earlier one precedes every adapter call of the later one, and the earlier
\* one completes first.
C1_DispatchOrder ==
  \A a \in Submitted : \A b \in Submitted :
    ( /\ SubmittedBefore(a, b)
      /\ ~HelloPriority(a) /\ ~HelloPriority(b)
      /\ result[a] = "ok" /\ result[b] = "ok" )
    => /\ Pos(doneLog, a) < Pos(doneLog, b)
       /\ \A i \in 1..Len(adapterLog) : \A j \in 1..Len(adapterLog) :
            (adapterLog[i][1] = a /\ adapterLog[j][1] = b) => i < j

\* two requests answered in turn, the first of them with two responses
C1_Witness ==
  \E a \in Submitted : \E b \in Submitted :
    /\ SubmittedBefore(a, b)
    /\ kind[a] = "retry" /\ kind[b] = "ping"
    /\ result[a] = "ok" /\ result[b] = "ok"
    /\ Cardinality({i \in 1..Len(adapterLog) : adapterLog[i][1] = a}) = 2

\* C2: a request that starts with HELLO and has hello_with_priority is
\* written and completed before every entry that was queued and not yet
\* written when it was submitted.
C2_HelloPriority ==
  \A p \in Submitted : \A e \in behind[p] :
    /\ (WirePos(e) # {}) => (WirePos(p) # {} /\ Min(WirePos(p)) < Min(WirePos(e)))
    /\ (result[e] = "ok") => DoneBefore(p, e)

\* C3: the written entries are a prefix of the queue, and the submission of
\* a request with HELLO priority moves no written entry.
C3_WrittenPrefix ==
  [][ /\ \A i \in 1..Len(reqs_') : \A j \in 1..Len(reqs_') :
           (i < j /\ written'[reqs_'[j]]) => written'[reqs_'[i]]
      /\ \A p \in Ids :
           (kind[p] = "none" /\ kind'[p] \in {"hello", "handshake"})
           => \A i \in 1..Len(reqs_) :
                written[reqs_[i]] => (i <= Len(reqs_') /\ reqs_'[i] = reqs_[i])
    ]_vars

\* a request with HELLO priority queued behind a written entry
C3_Witness ==
  \E i \in 1..Len(reqs_) : \E j \in 1..Len(reqs_) :
    /\ i < j
    /\ written[reqs_[i]]
    /\ kind[reqs_[j]] = "hello"

\* C4: on every connection the first payload flushed to the socket is the
\* payload of a HELLO request with priority.
C4_HelloFirst ==
  \A c \in 1..nconn :
    (ConnPos(c) # {}) => HelloPriority(wireLog[Min(ConnPos(c))][2])

\* C5: cancel(operation::exec) sets stop on every queued entry, wakes each
\* once, empties the queue and returns the number of entries it held; each
\* of these submissions completes with operation_aborted.
C5_CancelExec ==
  [][ (call'.op = "exec") =>
        /\ call'.ret = Len(reqs_)
        /\ reqs_' = <<>>
        /\ \A e \in Range(reqs_) :
             /\ stop'[e]
             /\ wakes'[e] = wakes[e] + 1
             /\ result'[e] = "aborted"
    ]_vars

\* cancel(exec) has just cancelled two entries, one of them written
C5_Witness ==
  /\ call.op = "exec"
  /\ call.ret = 2
  /\ \E e \in Ids : written[e] /\ stop[e] /\ result[e] = "aborted"

\* C6: a cancel(operation::exec) that directly follows another one returns
\* 0 and wakes nothing: no entry's timer has been cancelled twice.
C6_CancelExecTwice ==
  (call.op = "exec" /\ call.again)
  => (call.ret = 0 /\ \A i \in Ids : wakes[i] <= 1)

\* the second of two cancel(exec) calls, the first of which cancelled an entry
C6_Witness ==
  /\ call.op = "exec"
  /\ call.again
  /\ \E i \in Ids : stop[i] /\ wakes[i] = 1 /\ ~Attr(i).cancel_on_connection_lost
                    /\ ~Attr(i).close_on_run_completion

\* C7: cancel(operation::run) closes the socket, removes exactly the
\* entries with close_on_run_completion, which complete with
\* operation_aborted, and keeps the others in their order.
C7_CancelRun ==
  [][ (call'.op = "run") =>
        /\ socket_' # "open"
        /\ (socket_ # "null" => socket_' = "closed")
        /\ Range(reqs_') = {e \in Range(reqs_) : ~Attr(e).close_on_run_completion}
        /\ Len(reqs_') = Cardinality(Range(reqs_'))
        /\ \A i \in 1..Len(reqs_') : \A j \in 1..Len(reqs_') :
             i < j => Pos(reqs_, reqs_'[i]) < Pos(reqs_, reqs_'[j])
        /\ \A e \in Range(reqs_) :
             Attr(e).close_on_run_completion => result'[e] = "aborted"
        /\ \A e \in Range(reqs_') : result'[e] = "pending"
    ]_vars

\* cancel(run) has just closed an open socket, dropped a request with
\* close_on_run_completion and kept two others
C7_Witness ==
  /\ call.op = "run"
  /\ socket_ = "closed"
  /\ Len(reqs_) = 2
  /\ \E e \in Ids : kind[e] = "own_ping" /\ result[e] = "aborted"

\* C8: cancel(op) returns the number of operations it cancelled: the
\* pending async_exec for exec, the outstanding async_run for run, the
\* waiting receivers for receive_event and receive_push.
C8_CancelCount ==
  [][ /\ (call'.op = "exec") =>
           call'.ret = Cardinality({i \in Ids : result[i] = "pending"})
      /\ (call'.op = "run") =>
           call'.ret = (IF runState \in {"connecting", "running"} THEN 1 ELSE 0)
      /\ (call'.op = "receive_event") => call'.ret = eventWaiters
      /\ (call'.op = "receive_push") => call'.ret = pushWaiters
    ]_vars

\* C9: a request with cancel_if_not_connected submitted while the socket is
\* not open completes with not_connected; it is not queued and its payload
\* never reaches a socket.
C9_NotConnected ==
  [][ /\ \A i \in Ids :
           (kind[i] = "none" /\ kind'[i] = "cinc" /\ socket_ # "open")
           => result'[i] = "not_connected"
      /\ \A i \in Ids :
           (result'[i] = "not_connected")
           => /\ i \notin Range(reqs_')
              /\ i \notin Range(write_buffer_')
              /\ \A n \in 1..Len(wireLog') : wireLog'[n][2] # i
    ]_vars

\* a request failed with not_connected, and a later run wrote other payloads
C9_Witness ==
  /\ \E i \in Ids : kind[i] = "cinc" /\ result[i] = "not_connected"
  /\ nconn = 1
  /\ wireLog # <<>>

\* C10: an entry with retry_on_connection_lost and without
\* cancel_on_connection_lost that was written before a disconnect does not
\* fail, and is written exactly once on the connection that follows.
C10_RetryOnce ==
  \A e \in Submitted :
    (Attr(e).retry_on_connection_lost /\ ~Attr(e).cancel_on_connection_lost)
    => /\ result[e] \in {"pending", "ok"}
       /\ \A c \in 2..nconn :
            (\E n \in WirePos(e) : wireLog[n][1] < c)
            => Cardinality(WirePos(e) \cap ConnPos(c)) <= 1

\* the run coordinator has just finished a run cycle
RunEnded == runState = "running" /\ runState' # "running"

\* C11: when async_run has completed with operation_aborted after
\* cancel(operation::run), a request with neither cancel_on_connection_lost
\* nor retry_on_connection_lost that was written is not pending any more: it
\* was answered before, or it completed with operation_aborted.
C11_RetryFalse ==
  (runState = "done" /\ run_ec = "operation_aborted")
  => \A e \in Submitted :
       ( /\ ~Attr(e).cancel_on_connection_lost
         /\ ~Attr(e).retry_on_connection_lost
         /\ written[e] )
       => result[e] \in {"ok", "aborted"}

\* C12: when a run ends, every entry of the queue with
\* cancel_on_connection_lost leaves the queue and completes with
\* operation_aborted; the payload of an entry that completed with
\* operation_aborted is never flushed to a socket afterwards.
C12_CancelOnLost ==
  [][ /\ RunEnded =>
           \A e \in Range(reqs_) :
             Attr(e).cancel_on_connection_lost
             => (e \notin Range(reqs_') /\ result'[e] = "aborted")
      /\ \A n \in (Len(wireLog) + 1)..Len(wireLog') :
           result[wireLog'[n][2]] # "aborted"
    ]_vars

\* a request with cancel_on_connection_lost, written on the first
\* connection, was aborted at the end of the run, and the second connection
\* has carried payloads since
C12_Witness ==
  /\ nconn = 2
  /\ ConnPos(2) # {}
  /\ \E e \in UserIds :
       /\ Attr(e).cancel_on_connection_lost
       /\ result[e] = "aborted"
       /\ WirePos(e) # {}

\* the adapter calls made for entry e, as the sequence of their indices
AdapterIndices(e) ==
  LET calls == SelectSeq(adapterLog, LAMBDA c : c[1] = e) IN
    [i \in 1..Len(calls) |-> calls[i][3]]
\* the pushes handed to consumers, in the order of the hand-over
Received(log) ==
  LET oks == SelectSeq(log, LAMBDA r : r[1] = "ok") IN
    [i \in 1..Len(oks) |-> oks[i][2]]
\* a push is the next frame of the byte stream
PushAtHead == inbound # <<>> /\ is_push(Head(inbound))
\* the reader has just handed the push at the head to a consumer
PushTaken ==
  /\ PushAtHead
  /\ inbound' = Tail(inbound)
  /\ recvLog' = Append(recvLog, <<"ok", 0 - Head(inbound)>>)

C14_PushRendezvous ==
  [][ /\ PushAtHead =>
           /\ adapterLog' = adapterLog
           /\ \/ inbound' # <<>> /\ Head(inbound') = Head(inbound)
                                /\ Received(recvLog') = Received(recvLog)
              \/ inbound' = <<>> /\ socket_' # "open" /\ Received(recvLog') = Received(recvLog)
              \/ PushTaken /\ pushWaiters > 0 /\ pushWaiters' = pushWaiters - 1
      /\ \A i \in 1..Len(Received(recvLog')) : \A j \in 1..Len(Received(recvLog')) :
           i < j => Received(recvLog')[i] < Received(recvLog')[j]
    ]_vars

\* two pushes were handed to consumers, and a response was read after them
C14_Witness ==
  /\ Received(recvLog) = <<1, 2>>
  /\ adapterLog # <<>>
  /\ inbound = <<>>

\* C16: a consumer receives no more pushes than the server has sent, each
\* with success; cancel(operation::receive_push) completes every waiting
\* async_receive_push with channel_cancelled and leaves none waiting.
C16_ReceiveCancelled ==
  [][ /\ Len(Received(recvLog')) <= npush'
      /\ \A i \in 1..Len(Received(recvLog')) : Received(recvLog')[i] \in 1..npush'
      /\ (call'.op = "receive_push") =>
           /\ pushWaiters' = 0
           /\ recvLog' = recvLog \o [i \in 1..pushWaiters |-> <<"channel_cancelled", 0>>]
    ]_vars

\* one push was published; the first async_receive_push got it, the second
\* was cancelled after async_run had completed
C16_Witness ==
  /\ npush = 1
  /\ runState = "done"
  /\ call.op = "receive_push"
  /\ pushWaiters = 0
  /\ recvLog = << <<"ok", 1>>, <<"channel_cancelled", 0>> >>

PushBlocked ==
  /\ runState = "running"
  /\ run_ec = "none"
  /\ is_open
  /\ PushAtHead
  /\ pushWaiters = 0

\* C15 (as stated): with a push at the head of the byte stream and no
\* consumer, now or later, no adapter is called any more and async_run
\* eventually completes with idle_timeout.
C15_PushNoConsumerCompletes ==
  /\ [][PushBlocked => adapterLog' = adapterLog]_vars
  /\ PushBlocked ~> (run_ec = "idle_timeout" /\ runState = "done")

\* C15: with a push at the head of the byte stream and no consumer, now or
\* later, no adapter is called any more and the run eventually ends with
\* idle_timeout: async_run completes with it when config::enable_reconnect
\* is not set, and the coordinator goes on to reconnect when it is.
C15_PushNoConsumer ==
  /\ [][PushBlocked => adapterLog' = adapterLog]_vars
  /\ PushBlocked ~> (run_ec = "idle_timeout" /\ runState = run_end_next)

\* the response of the handshake was read, a push came that nobody took, and
\* async_run completed with idle_timeout
C15_Witness ==
  /\ Len(adapterLog) = 1
  /\ npush > 0
  /\ recvLog = <<>>
  /\ run_ec = "idle_timeout"
  /\ runState = "done"

\* the idle checker closes the socket and ends the run
IdleClosed == run_ec = "none" /\ run_ec' = "idle_timeout"

\* C18: while running, when no data has come for more than 2 x ping_interval
\* the run ends with idle_timeout; and the idle checker closes the socket
\* only then, counted from the start of the run when no data has come yet.
C18_IdleTimeout ==
  /\ [][IdleClosed => quiet > IdleFactor]_vars
  /\ (runState = "running" /\ run_ec = "none" /\ quiet > IdleFactor)
        ~> (run_ec = "idle_timeout")

\* a resolve or connect attempt has just timed out or failed
AttemptFailed == nfail' = nfail + 1

\* C19: when a resolve or connect attempt times out or fails, async_run
\* does not complete and the coordinator is back at a new attempt if
\* config::enable_reconnect is set, and async_run completes with the error of
\* the attempt if it is not.
C19_ConnectFailure ==
  [][AttemptFailed =>
       IF cfg.enable_reconnect
       THEN runState' = "connecting"
       ELSE runState' = "done" /\ run_ec' \in ConnectErrors]_vars

\* with enable_reconnect, an attempt failed and the next one, the first to
\* succeed, has brought the connection up
C19_Witness ==
  /\ cfg.enable_reconnect
  /\ nfail >= 1
  /\ nconn = 1
  /\ runState = "running"

\* C20: a request with more commands than the adapter supports is rejected:
\* the submission completes with incompatible_size and no entry is added to
\* the queue.
C20_IncompatibleSize ==
  [][\A i \in UserIds :
       (kind[i] = "none" /\ kind'[i] = "oversize")
         => (result'[i] = "incompatible_size" /\ reqs_' = reqs_)]_vars

\* the submission of entry e has just completed with the error of its adapter
AdapterFailed(e) == result[e] = "pending" /\ result'[e] \in AdapterErrors

\* C21: when the adapter of a request reports an error, the submission
\* completes with that error and its entry leaves the queue; then either the
\* run goes on with the queue behind it untouched, the socket open and the
\* next frame at the head of the stream, or the run is torn down with
\* operation_aborted, which is then what a completed async_run reports.
C21_AdapterError ==
  [][ /\ \A e \in Ids :
           AdapterFailed(e) =>
             /\ e = Head(reqs_)
             /\ reqs_' = Tail(reqs_)
             /\ \/ /\ run_ec' = "none"
                   /\ socket_' = "open"
                   /\ inbound' = Tail(inbound)
                   /\ cmds'[e] = 0
                \/ run_ec' = "operation_aborted"
      /\ runState' = "done" => run_ec' = "operation_aborted" ]_vars

\* a request completed with the error of its adapter, and a request that
\* was written after it was served after it on the same connection
C21_Witness ==
  \E e, g \in UserIds :
    /\ result[e] \in AdapterErrors
    /\ result[g] = "ok"
    /\ \E i, k \in 1..Len(wireLog) :
         i < k /\ wireLog[i] = <<1, e>> /\ wireLog[k] = <<1, g>>
    /\ \E i, k \in 1..Len(doneLog) :
         i < k /\ doneLog[i] = e /\ doneLog[k] = g
    /\ run_ec = "none"
    /\ runState = "running"
    /\ nconn = 1

\* the adapter of a consumer has reported an error on a push
PushFailed == \E i \in 1..Len(recvLog) : recvLog[i][1] \in PushAdapterErrors

\* C22: when the adapter of receive_push reports an error on a push, the
\* receive completes with that error, a request that is pending in the queue
\* at that time completes with channel_cancelled, and a completed async_run
\* reports operation_canceled (the value of operation_aborted).
C22_PushAdapterError ==
  [][ /\ \A e \in Ids :
           (PushFailed /\ result[e] = "pending" /\ result'[e] # "pending")
             => result'[e] = "channel_cancelled"
      /\ (PushFailed' /\ runState' = "done")
           => run_ec' = "operation_aborted" ]_vars

RECURSIVE SumRemaining(_)
\* the response frames still expected by the written entries of a queue
SumRemaining(q) ==
  IF q = <<>> THEN 0
  ELSE (IF written[Head(q)] THEN cmds[Head(q)] ELSE 0) + SumRemaining(Tail(q))

\* C23: in every reachable state the in-flight counter equals the sum of
\* the remaining expected response frames over the written entries of the
\* queue, also after cancel(operation::exec) and cancel(operation::run).
C23_FrameAccounting == cmds_ = SumRemaining(reqs_)

\* the payload of entry e has been flushed to the socket that is open now
Flushed(e) ==
  is_open /\ \E k \in 1..Len(wireLog) : wireLog[k] = <<nconn, e>>

\* C24: in every reachable state an entry of the queue is marked written if
\* and only if its payload has been flushed to the current socket and
\* responses to it are pending: not while its write is in progress, and not
\* after the socket it was written to has been closed.
C24_WrittenIffFlushed ==
  \A i \in 1..Len(reqs_) :
    written[reqs_[i]] <=> (Flushed(reqs_[i]) /\ cmds[reqs_[i]] > 0)

\* the writer has just formed a write batch
Coalesced == write_buffer_ = <<>> /\ write_buffer_' # <<>>

\* the entries of the queue that are not written, in queue order
Unwritten(q) == SelectSeq(q, LAMBDA e : ~written[e])

\* C25: each write batch starts at the first unwritten entry of the queue,
\* holds at least one entry, holds only entries that were unwritten, and goes
\* on past an entry only if that entry has coalesce = true.
C25_CoalescingRule ==
  [][Coalesced =>
       /\ Unwritten(reqs_) # <<>>
       /\ Head(write_buffer_') = Head(Unwritten(reqs_))
       /\ \A i \in 1..Len(write_buffer_') : ~written[write_buffer_'[i]]
       /\ \A i \in 1..(Len(write_buffer_') - 1) :
            Attr(write_buffer_'[i]).coalesce]_vars

\* C26: whatever byte the parser has read at the start of a frame, the type
\* it decoded is the one type that to_code maps to that byte, with the byte
\* of the table (to_type undoes to_code, and no two of the 16 types share a
\* byte); for a byte that is none of the 16 the type is invalid and the
\* parser fails with unknown_type (and only then); is_aggregate holds for
\* array, push, set, map and attribute alone.
C26_TypeTable ==
  LET table == { <<"blob_error", 33>>, <<"verbatim_string", 61>>,
                 <<"blob_string", 36>>, <<"streamed_string_part", 59>>,
                 <<"simple_error", 45>>, <<"number", 58>>, <<"doublean", 44>>,
                 <<"boolean", 35>>, <<"big_number", 40>>,
                 <<"simple_string", 43>>, <<"null", 95>>, <<"push", 62>>,
                 <<"set", 126>>, <<"array", 42>>, <<"attribute", 124>>,
                 <<"map", 37>> }
      sigils == {p[2] : p \in table} IN
    /\ Cardinality(Types) = 16
    /\ \A t \in Types \cup {"invalid"} :
         is_aggregate(t) <=> t \in {"array", "push", "set", "map", "attribute"}
    /\ ptype # "none" =>
         /\ \A t \in Types : to_code(t) = pbyte => ptype = t
         /\ ptype \in Types => (to_code(ptype) = pbyte /\ <<ptype, pbyte>> \in table)
         /\ (ptype = "invalid") <=> (pbyte \notin sigils)
         /\ (perr = "unknown_type") <=> (pbyte \notin sigils)
    /\ \A i \in 1..Len(stack) :
         stack[i].type \in {"array", "push", "set", "map", "attribute"}

\* inside an aggregate the parser met a byte that is no sigil and failed
C26_Witness ==
  /\ stack # <<>>
  /\ pbyte = 63
  /\ ptype = "invalid"
  /\ perr = "unknown_type"

\* C27: element_multiplicity is 2 for map and attribute and 1 for every
\* other type; an aggregate of size s is complete after exactly s times that
\* many frames one level down, and not before.
C27_Multiplicity ==
  LET mult(t) == IF t \in {"map", "attribute"} THEN 2 ELSE 1 IN
    /\ \A t \in Types \cup {"invalid"} : element_multiplicity(t) = mult(t)
    /\ \A i \in 1..Len(stack) :
         /\ stack[i].remaining > 0
         /\ stack[i].seen + stack[i].remaining
              = stack[i].size * mult(stack[i].type)
    /\ agg.type # "none" => agg.seen = agg.size * mult(agg.type)

\* an attribute of size 2 inside another aggregate is complete, after four
\* frames
C27_Witness ==
  /\ agg.type = "attribute"
  /\ agg.size = 2
  /\ agg.seen = 4
  /\ stack # <<>>

\* the payload of entry e went out on the connection that is current
SentBefore(e) == \E k \in 1..Len(wireLog) : wireLog[k] = <<nconn, e>>

\* C28: within one connection a write batch never holds the payload of an
\* entry that was already sent on that connection, and the in-flight
\* counter grows by the command counts of entries not sent before only.
C28_WriteOnce ==
  [][Coalesced =>
       /\ \A i \in 1..Len(write_buffer_') : ~SentBefore(write_buffer_'[i])
       /\ cmds_' = cmds_ + SumSize(SelectSeq(write_buffer_',
                                            LAMBDA e : ~SentBefore(e)))]_vars

\* the writer calls coalesce_requests
CoalesceCalled == writer = "check" /\ writer' = "writing"

\* C29: at every call of coalesce_requests the write buffer is empty and the
\* queue is not, whatever submit, cancel(exec), cancel(run), writer and
\* reader did before; this includes a cancel(exec) that empties the queue
\* between the wake-up of the writer and its next step.
C29_CoalesceAsserts ==
  [][CoalesceCalled => (write_buffer_ = <<>> /\ reqs_ # <<>>)]_vars

\* the writer has written before and is woken again, and cancel(exec) has
\* emptied the queue before the writer runs
C29_Witness ==
  /\ wireLog # <<>>
  /\ call.op = "exec"
  /\ call.ret > 0
  /\ reqs_ = <<>>
  /\ writer = "check"
  /\ is_open
  /\ runState = "running"

\* entry e was submitted while the connection was running and waits in the
\* queue for its write
SubmittedRunning(e) ==
  /\ runState = "running"
  /\ is_open
  /\ \E i, j \in 1..Len(subLog) :
       i < j /\ subLog[i] = HandshakeId(1) /\ subLog[j] = e
  /\ \E i \in 1..Len(reqs_) : reqs_[i] = e
  /\ ~SentBefore(e)

Dispatched == Len(adapterLog') = Len(adapterLog) + 1

\* C31: a response to a request that cancel(operation::exec) has cancelled
\* is never handed to the adapter of another request, and the reader hands
\* a response only to an entry that is written.
C31_NoMisattribution ==
  [][Dispatched =>
       LET a == adapterLog'[Len(adapterLog')] IN
         /\ result[a[2]] = "aborted" => a[1] = a[2]
         /\ written[a[1]]]_vars

\* one of the activities of the run has finished
ActivityFinished == runState = "running" /\ (run_ec # "none" \/ ~is_open)

\* the writer starts a write
WriteStarted == writer # "writing" /\ writer' = "writing"

PushRequestsCancelled == writer = "writing" /\ writer' = "check" /\ is_open

\* C33: cancel_push_requests removes from the queue exactly the entries
\* that are written and whose request expects no response, wakes each of
\* them without setting its stop flag, and leaves the other entries in the
\* queue in their order.
C33_CancelPushRequests ==
  [][PushRequestsCancelled =>
       LET gone == {e \in Range(reqs_) : written[e] /\ request_size(kind[e]) = 0} IN
         /\ reqs_' = SelectSeq(reqs_, LAMBDA e : e \notin gone)
         /\ \A e \in gone : wakes'[e] = wakes[e] + 1 /\ stop'[e] = stop[e]
         /\ \A e \in gone : ~stop[e] /\ result[e] = "pending" => result'[e] = "ok"
         /\ \A e \in Ids \ gone : wakes'[e] = wakes[e] /\ result'[e] = result[e]]_vars

\* the write of a SUBSCRIBE has just completed: the entry has left the
\* queue, woken once and without stop flag, and two entries stay behind
C33_Witness ==
  /\ writer = "check"
  /\ write_buffer_ = <<>>
  /\ Len(reqs_) >= 2
  /\ \E a \in UserIds :
       /\ kind[a] = "subscribe"
       /\ wireLog # <<>> /\ wireLog[Len(wireLog)][2] = a
       /\ a \notin Range(reqs_)
       /\ wakes[a] = 1 /\ ~stop[a] /\ result[a] = "ok"

\* C34: cancel(receive_push) and cancel(receive_event) leave the queue, the
\* written flags, the count of commands in flight and the socket as they
\* are; cancel(exec) leaves the socket, the run and the consumers of pushes
\* and of events as they are.
C34_CancelFrames ==
  [][ /\ call'.op \in {"receive_push", "receive_event"} =>
           /\ reqs_' = reqs_
           /\ written' = written
           /\ cmds_' = cmds_
           /\ socket_' = socket_
      /\ call'.op = "exec" =>
           /\ socket_' = socket_
           /\ runState' = runState
           /\ run_ec' = run_ec
           /\ writer' = writer
           /\ pushWaiters' = pushWaiters
           /\ eventWaiters' = eventWaiters ]_vars

\* cancel(exec) has just returned on a running connection with commands in
\* flight and a consumer of events waiting, after cancel(receive_push) had
\* cancelled a consumer of pushes
C34_Witness ==
  /\ call.op = "exec"
  /\ call.ret > 0
  /\ is_open
  /\ runState = "running"
  /\ cmds_ > 0
  /\ eventWaiters = 1
  /\ \E i \in 1..Len(recvLog) : recvLog[i][1] = "channel_cancelled"

\* the parser has read the header of an aggregate that expects frames
AggregateOpened == Len(stack') = Len(stack) + 1

\* C35 (as stated): an aggregate that opens expects its size times the
\* multiplicity of the type table: 2 for map and 1 for every other type,
\* attribute included.
C35_TableMultiplicity ==
  [][AggregateOpened =>
       LET top == stack'[Len(stack')] IN
         /\ element_multiplicity(top.type) = (IF top.type = "map" THEN 2 ELSE 1)
         /\ top.remaining = top.size * (IF top.type = "map" THEN 2 ELSE 1)]_vars

\* C35 (amended): an aggregate that opens expects its size times 2 frames
\* when it is a map or an attribute and its size times 1 for array, set
\* and push; the types that are no aggregates have multiplicity 1.
C35_Multiplicity ==
  [][AggregateOpened =>
       LET top == stack'[Len(stack')]
           pairs == top.type \in {"map", "attribute"} IN
         /\ top.seen = 0
         /\ pairs => top.remaining = 2 * top.size
         /\ ~pairs => top.remaining = top.size
         /\ \A t \in Types : ~is_aggregate(t) => element_multiplicity(t) = 1]_vars

\* an attribute of size 1 has just opened inside a map: it expects two
\* frames
C35_Witness ==
  /\ Len(stack) = 2
  /\ stack[1].type = "map"
  /\ stack[2].type = "attribute"
  /\ stack[2].size = 1
  /\ stack[2].remaining = 2
  /\ stack[2].seen = 0
  /\ ptype = "attribute"

====
